---- MODULE Spec2Model ----
(***************************************************************************)
(* State machine of the flood map client (web/src/App.tsx): the React      *)
(* state of App, the SWR cache entry for '/hazards', the create requests   *)
(* with their toasts, the warnings raised and the hazard store behind the  *)
(* API (Spec), and the map with its two layers and the handlers loadExtras *)
(* registers (SpecMap). Coordinates are whole degrees, opacities are       *)
(* hundredths, a stored hazard is kept by its identity, and strings stand  *)
(* for themselves.                                                         *)
(***************************************************************************)
EXTENDS Integers, Sequences, FiniteSets, TLC

VARIABLES
    drawPoint,        \* useState<boolean>(false)
    lat,              \* useState<number>, map centre latitude
    lng,              \* useState<number>, map centre longitude
    hazardType,       \* value of the selected Option
    notes,            \* useState<string>("")
    isAuthenticated,  \* useAuth0().isAuthenticated
    accessToken,      \* useState<string | null>(null)
    tokenFetch,       \* getAccessTokenSilently: "idle", "pending", "done", "failed"
    data,             \* SWR cache entry of '/hazards' (useSWR's data)
    fetching,         \* a GET /hazards whose result SWR will accept is in flight
    reqs,             \* the create requests issued so far, in order of submission
    store,            \* the hazards held by the remote store
    warnings,         \* the toast.error calls of the last event handled
    map               \* the map engine: zoom, layers drawn, pointer and popup

vars == << drawPoint, lat, lng, hazardType, notes, isAuthenticated, accessToken,
           tokenFetch, data, fetching, reqs, store, warnings, map >>

\* The state of the app apart from the toast calls of the last event.
appState == << drawPoint, lat, lng, hazardType, notes, isAuthenticated, accessToken,
               tokenFetch, data, fetching, reqs, store >>

\* ---------------------------------------------------------------- bounds

MaxSubmits == 2

\* The zooms of the map are 0..MaxZoom.
MaxZoom == 10

\* Feature longitudes are within -MaxFeatureLng..MaxFeatureLng, the
\* longitudes of a click, which may fall on a copy of the world, within
\* -MaxClickLng..MaxClickLng.
MaxFeatureLng == 180
MaxClickLng == 540

\* The longitudes tried: the quarter turns and their neighbours.
Longitudes(max) == { x \in (-max)..max : x % 90 \in { 0, 1, 89 } }

\* The map positions the viewport is moved between: << latitude, longitude >>.
Positions == { << -37, 143 >>, << -36, 144 >> }

\* The texts typed into the notes field.
NoteTexts == { "", "debris on shoulder" }

\* ------------------------------------------------------------- constants

hazardOptions == << "FLOODED_ROAD", "TREE_DOWN", "OTHER" >>

OptionValues == { hazardOptions[i] : i \in 1..Len(hazardOptions) }

InitLat == -37
InitLng == 143

Null == "null"
Token == "token"

\* ------------------------------------------------------------ JS values

\* undefined: useSWR's data before the first response.
Undefined == [shape |-> "undefined", features |-> << >>]

\* { type, geojson: { features } }: the body GET /hazards answers with.
HazardsResponse(fs) == [shape |-> "response", features |-> fs]

\* { type, features }: the object submitHazardForm's updater builds.
Collection(fs) == [shape |-> "collection", features |-> fs]

\* A JSON body that is no collection: what the API answers with on an error.
ErrorBody == [shape |-> "error", features |-> << >>]

\* A rejected promise (a thrown error).
Thrown == [shape |-> "thrown", features |-> << >>]

\* The created hazard the store answers a POST with, kept by its identity:
\* the store gives the hazard of create request id the identity id.
Hazard(id) == [id |-> id]

\* The error object the store answers a refused POST with.
ErrorHazard == [id |-> 0]

\* The body of a POST that has been handled and is no longer on the wire.
NoPost == [body |-> [lat |-> 0, lng |-> 0, hazardType |-> "", notes |-> ""],
           token |-> Null]

\* ---------------------------------------------------------------- toasts

WarnEnter == "Login to add a hazard."
WarnSubmit == "Login to add hazards."
MsgLoading == "Loading..."
MsgSuccess == "Successfully saved hazard."
MsgError == "Whoops! An error just occured..."

\* toast.error(msg, { duration: 3000 })
ToastError(msg) == << msg >>

\* No call of toast.error.
NoToast == << >>

\* toast.promise: the toast of a create request shows the loading text while
\* the promise is pending, the success text once it has fulfilled and the
\* error text once it has rejected.
ToastPromise(settled, fulfilled) ==
    IF ~settled THEN MsgLoading
    ELSE IF fulfilled THEN MsgSuccess ELSE MsgError

\* ------------------------------------------------------------- rendering

\* The JSX reads data && data.geojson.features: defined when data is
\* undefined (short circuit) or has a geojson member.
RenderDefined(d) == d.shape \in { "undefined", "response" }

\* The features handed to the Source of the heatmap and symbol layers.
RenderedFeatures(d) == IF d.shape = "response" THEN d.features ELSE << >>

\* -------------------------------------------------------------- the map

MAX_HEATMAP_LEVEL == 9

\* The zoom of initialViewState.
InitZoom == 4

\* Variant: heatmap-opacity given the stops of heatmap-intensity.
heatmapLayerIntensity ==
    [id |-> "heatmap",
     maxzoom |-> MAX_HEATMAP_LEVEL,
     opacity |-> << << 0, 100 >>, << MAX_HEATMAP_LEVEL, 300 >> >>]

\* heatmapLayer: its maxzoom and the stops of 'heatmap-opacity', each stop
\* << zoom, opacity >> with the opacity in hundredths.
heatmapLayer ==
    [id |-> "heatmap",
     maxzoom |-> MAX_HEATMAP_LEVEL,
     opacity |-> << << 7, 100 >>, << MAX_HEATMAP_LEVEL, 0 >> >>]

\* symbolLayer: its minzoom and the 'match' of 'icon-image', the labels with
\* their outputs and the fallback.
symbolLayer ==
    [id |-> "point",
     minzoom |-> 4,
     cases |-> << << "FLOODED_ROAD", "flood-pin" >>, << "TREE_DOWN", "warning-pin" >> >>,
     fallback |-> "warning-pin"]

\* The images loadExtras adds to the map.
Images == { "flood-pin", "warning-pin" }

\* ['interpolate', ['linear'], input, stops]: the output of the first stop
\* below it, of the last stop above it, and linear between two stops.
Interpolate(stops, x) ==
    IF x <= stops[1][1] THEN stops[1][2]
    ELSE IF x >= stops[Len(stops)][1] THEN stops[Len(stops)][2]
    ELSE LET k == CHOOSE j \in 1..(Len(stops) - 1) :
                      stops[j][1] <= x /\ x < stops[j + 1][1]
         IN  stops[k][2] + ((stops[k + 1][2] - stops[k][2]) * (x - stops[k][1]))
                              \div (stops[k + 1][1] - stops[k][1])

\* ['match', input, label, output, ..., fallback].
Match(cases, fallback, input) ==
    IF \E j \in 1..Len(cases) : cases[j][1] = input
    THEN cases[CHOOSE j \in 1..Len(cases) : cases[j][1] = input][2]
    ELSE fallback

\* 'heatmap-opacity' at zoom z.
HeatmapOpacity(z) == Interpolate(heatmapLayer.opacity, z)

\* Variant: the rule of the Marker of report mode.
IconImageMarker(type) == IF type = "TREE_DOWN" THEN "warning-pin" ELSE "flood-pin"

\* 'icon-image' of a feature whose hazardType property is type.
IconImage(type) == Match(symbolLayer.cases, symbolLayer.fallback, type)

\* A layer is drawn from its minzoom up to, not including, its maxzoom.
HeatmapDrawn(z) == z < heatmapLayer.maxzoom
SymbolsDrawn(z) == z >= symbolLayer.minzoom

\* No feature under the pointer.
NoFeature == [hazardType |-> "", lng |-> 0]

\* The map as loaded: the pointer over no feature, no popup.
MapAt(z) ==
    [zoom |-> z, heatmap |-> HeatmapDrawn(z), opacity |-> HeatmapOpacity(z),
     cursor |-> "", feature |-> NoFeature, icon |-> "",
     pc |-> "idle", click |-> 0, coordinates |-> 0]

InitMap == MapAt(InitZoom)

\* ------------------------------------------------------------------ Init

Init ==
    /\ drawPoint = FALSE
    /\ lat = InitLat
    /\ lng = InitLng
    /\ hazardType = hazardOptions[1]
    /\ notes = ""
    /\ isAuthenticated = FALSE
    /\ accessToken = Null
    /\ tokenFetch = "idle"
    /\ data = Undefined
    /\ fetching = TRUE
    /\ reqs = << >>
    /\ store = << >>
    /\ warnings = << >>
    /\ map = InitMap

\* --------------------------------------------------------------- actions

\* Variant: report mode is entered without looking at the session.
MayEnterAlways(authenticated) == TRUE

\* toggleDrawPoint's gate: if (!isAuthenticated) { toast.error(...); return; }
MayEnter(authenticated) == authenticated

\* The toolbar's "Add Hazard" button, shown while drawPoint is false.
toggleDrawPoint ==
    /\ RenderDefined(data)
    /\ ~drawPoint
    /\ IF ~MayEnter(isAuthenticated)
       THEN /\ warnings' = ToastError(WarnEnter)
            /\ UNCHANGED drawPoint
       ELSE /\ warnings' = NoToast
            /\ drawPoint' = ~drawPoint
    /\ UNCHANGED << map, lat, lng, hazardType, notes, isAuthenticated, accessToken,
                    tokenFetch, data, fetching, reqs, store >>

\* onMove of the Map: the view state's centre overwrites lat and lng.
updateMapCenterCoordinates(pos) ==
    /\ RenderDefined(data)
    /\ << lat, lng >> # pos
    /\ lat' = pos[1]
    /\ lng' = pos[2]
    /\ warnings' = NoToast
    /\ UNCHANGED << map, drawPoint, hazardType, notes, isAuthenticated, accessToken,
                    tokenFetch, data, fetching, reqs, store >>

\* hazardOptions.find(option => option.value === value): the value found, or
\* the current one kept when find answers undefined.
FindOption(value, current) ==
    IF \E i \in 1..Len(hazardOptions) : hazardOptions[i] = value
    THEN value
    ELSE current

\* Variant: selecting a category keeps the notes typed.
SelectedFormKeepsNotes(value, type, text) == << FindOption(value, type), text >>

\* Variant: the notes are cleared only when the category changes.
SelectedFormOnChange(value, type, text) ==
    << FindOption(value, type), IF value = type THEN text ELSE "" >>

\* handleHazardOptionSelected(value): the form it leaves, as
\* << hazardType, notes >>.
SelectedForm(value, type, text) == << FindOption(value, type), "" >>

\* onChange of the select of the form, shown while drawPoint is true.
handleHazardOptionSelected(value) ==
    /\ RenderDefined(data)
    /\ drawPoint
    /\ LET after == SelectedForm(value, hazardType, notes) IN
        /\ hazardType' = after[1]
        /\ notes' = after[2]
    /\ warnings' = NoToast
    /\ UNCHANGED << map, drawPoint, lat, lng, isAuthenticated, accessToken, tokenFetch,
                    data, fetching, reqs, store >>

\* onChange of the notes textarea, rendered while the category is OTHER.
setNotes(text) ==
    /\ RenderDefined(data)
    /\ drawPoint
    /\ hazardType = "OTHER"
    /\ text # notes
    /\ notes' = text
    /\ warnings' = NoToast
    /\ UNCHANGED << map, drawPoint, lat, lng, hazardType, isAuthenticated, accessToken,
                    tokenFetch, data, fetching, reqs, store >>

\* Variant: draw mode is left open.
resetHazardFormLater(type, text) == << TRUE, type, text >>

\* resetHazardForm(): the state it leaves, as << drawPoint, hazardType, notes >>.
resetHazardForm(type, text) == << FALSE, type, text >>

\* The form's Reset button.
Reset ==
    /\ RenderDefined(data)
    /\ drawPoint
    /\ LET after == resetHazardForm(hazardType, notes) IN
        /\ drawPoint' = after[1]
        /\ hazardType' = after[2]
        /\ notes' = after[3]
    /\ warnings' = NoToast
    /\ UNCHANGED << map, lat, lng, isAuthenticated, accessToken, tokenFetch, data,
                    fetching, reqs, store >>

\* Variant: latitude and longitude change places in the body.
SaveHazardSwapped(la, ln, type, text, token) ==
    [body |-> [lat |-> ln, lng |-> la, hazardType |-> type, notes |-> text],
     token |-> token]

\* SaveHazard: the POST /hazards it sends.
SaveHazard(la, ln, type, text, token) ==
    [body |-> [lat |-> la, lng |-> ln, hazardType |-> type, notes |-> text],
     token |-> token]

\* Variant: the hazard is appended to the cached collection at once, as
\* optimisticData would.
MutateOptimistic(d, id) ==
    IF d.shape = "response"
    THEN HazardsResponse(Append(d.features, Hazard(id)))
    ELSE d

\* mutate('/hazards', async updater, { revalidate: true }) while the updater
\* of create request id is pending: no optimisticData is given, the cache
\* entry stays as it is.
MutatePending(d, id) == d

\* What the updater reads of the data of the render that submitted, data.type
\* and [...data.features]: the collection when data has a features member, a
\* TypeError when data is undefined or has no such member to spread.
ClosureData(d) == IF d.shape = "collection" THEN d ELSE Thrown

\* The updater's value once SaveHazard has fulfilled with newHazard:
\* { type: data.type, features: [...data.features, newHazard] }.
UpdaterResult(closure, newHazard) ==
    IF closure.shape = "thrown"
    THEN Thrown
    ELSE Collection(Append(closure.features, newHazard))

\* The phases of a create request whose promise has not settled.
Pending == { "sent", "answered" }

\* SWR's mutation marker of '/hazards': the latest mutate call has not ended.
MutationPending == reqs # << >> /\ reqs[Len(reqs)].phase \in Pending

\* Variant: the form is submitted without looking at the token.
TokenAvailableAlways(token) == TRUE

\* submitHazardForm's gate: if (accessToken === null) { toast.error(...); return; }
TokenAvailable(token) == token # Null

\* onSubmit of the form, shown while drawPoint is true. With a token, mutate
\* calls the updater, which calls SaveHazard and shows the loading toast, and
\* resetHazardForm follows at once. SWR discards the result of a GET that was
\* in flight when a mutate call started, so that GET is dropped here.
submitHazardForm ==
    /\ RenderDefined(data)
    /\ drawPoint
    /\ IF ~TokenAvailable(accessToken)
       THEN /\ warnings' = ToastError(WarnSubmit)
            /\ UNCHANGED << drawPoint, hazardType, notes, data, fetching, reqs >>
       ELSE /\ Len(reqs) < MaxSubmits
            /\ LET post == SaveHazard(lat, lng, hazardType, notes, accessToken)
                   after == resetHazardForm(hazardType, notes)
               IN  /\ reqs' = Append(reqs, [post |-> post, closure |-> ClosureData(data),
                                            phase |-> "sent", answer |-> "none",
                                            toast |-> ToastPromise(FALSE, FALSE)])
                   /\ data' = MutatePending(data, Len(reqs) + 1)
                   /\ fetching' = FALSE
                   /\ drawPoint' = after[1]
                   /\ hazardType' = after[2]
                   /\ notes' = after[3]
            /\ warnings' = NoToast
    /\ UNCHANGED << map, lat, lng, isAuthenticated, accessToken, tokenFetch, store >>

\* The identity provider reports the session: the effect starts the token fetch.
AuthResolved ==
    /\ ~isAuthenticated
    /\ tokenFetch = "idle"
    /\ isAuthenticated' = TRUE
    /\ tokenFetch' = "pending"
    /\ warnings' = NoToast
    /\ UNCHANGED << map, drawPoint, lat, lng, hazardType, notes, accessToken, data,
                    fetching, reqs, store >>

\* Variant: the catch branch stores a token too.
FetchedTokenAlways(ok, current) == Token

\* accessToken once getAccessTokenSilently has settled: setAccessToken in
\* the try branch, console.log alone in the catch branch.
FetchedToken(ok, current) == IF ok THEN Token ELSE current

\* getUserAccessToken: getAccessTokenSilently settles, fulfilled or rejected.
getUserAccessToken(ok) ==
    /\ tokenFetch = "pending"
    /\ accessToken' = FetchedToken(ok, accessToken)
    /\ tokenFetch' = IF ok THEN "done" ELSE "failed"
    /\ warnings' = NoToast
    /\ UNCHANGED << map, drawPoint, lat, lng, hazardType, notes, isAuthenticated, data,
                    fetching, reqs, store >>

\* The session ends: isAuthenticated turns false, the effect returns early.
SessionEnd ==
    /\ isAuthenticated
    /\ isAuthenticated' = FALSE
    /\ warnings' = NoToast
    /\ UNCHANGED << map, drawPoint, lat, lng, hazardType, notes, accessToken, tokenFetch,
                    data, fetching, reqs, store >>

\* The store handles the POST of request i: it creates the hazard and answers
\* with it, or refuses and answers with an error body.
StoreAnswers(i, answer) ==
    /\ reqs[i].phase = "sent"
    /\ reqs' = [reqs EXCEPT ![i].phase = "answered", ![i].answer = answer,
                            ![i].post = NoPost]
    /\ store' = IF answer = "created" THEN Append(store, Hazard(i)) ELSE store
    /\ warnings' = NoToast
    /\ UNCHANGED << map, drawPoint, lat, lng, hazardType, notes, isAuthenticated,
                    accessToken, tokenFetch, data, fetching >>

\* Variant: an updater that threw empties the cache entry.
MutateSettledAnyway(d, i, latest, result) ==
    IF i = latest
    THEN IF result.shape = "thrown" THEN Undefined ELSE result
    ELSE d

\* What SWR writes once the updater of request i has settled with result:
\* nothing when a later mutate call has started since or the updater threw.
MutateSettled(d, i, latest, result) ==
    IF i = latest /\ result.shape # "thrown" THEN result ELSE d

\* The promise of SaveHazard for request i settles: fetch(...).then(res =>
\* res.json()) fulfils with whatever JSON body was answered and rejects when
\* the request fails or the body is no JSON. toast.promise reports it, the
\* updater goes on, and SWR, for the latest mutate call, writes the updater's
\* value and revalidates.
PostSettles(i, fulfilled) ==
    /\ reqs[i].phase \in Pending
    /\ fulfilled => reqs[i].phase = "answered"
    /\ LET newHazard == IF reqs[i].answer = "created" THEN Hazard(i) ELSE ErrorHazard
           result == IF fulfilled THEN UpdaterResult(reqs[i].closure, newHazard)
                                  ELSE Thrown
       IN  /\ data' = MutateSettled(data, i, Len(reqs), result)
           /\ fetching' = IF i = Len(reqs) THEN TRUE ELSE fetching
    /\ reqs' = [reqs EXCEPT ![i].phase = IF fulfilled THEN "fulfilled" ELSE "rejected",
                            ![i].post = NoPost,
                            ![i].answer = IF fulfilled THEN @ ELSE "none",
                            ![i].toast = ToastPromise(TRUE, fulfilled)]
    /\ warnings' = NoToast
    /\ UNCHANGED << map, drawPoint, lat, lng, hazardType, notes, isAuthenticated,
                    accessToken, tokenFetch, store >>

\* useSWR revalidates (focus, reconnect, retry after an error) when no
\* request is in flight; a fetch started while a mutation is pending has its
\* result discarded, so it is not started here.
Revalidate ==
    /\ RenderDefined(data)
    /\ ~fetching
    /\ ~MutationPending
    /\ fetching' = TRUE
    /\ warnings' = NoToast
    /\ UNCHANGED << map, drawPoint, lat, lng, hazardType, notes, isAuthenticated,
                    accessToken, tokenFetch, data, reqs, store >>

\* fetcher: fetch(...).then(res => res.json()) fulfils with the JSON body
\* answered, the collection or an error body, and rejects otherwise.
fetcher(outcome) ==
    CASE outcome = "ok" -> HazardsResponse(store)
      [] outcome = "error" -> ErrorBody
      [] OTHER -> Thrown

\* Variant: the features fetched are added to the ones cached.
RefreshedMerged(d, result) ==
    IF result.shape = "thrown" THEN d
    ELSE [result EXCEPT !.features = d.features \o result.features]

\* What useSWR keeps once the fetcher has settled with result.
Refreshed(d, result) == IF result.shape = "thrown" THEN d ELSE result

\* The GET /hazards in flight completes.
FetchCompletes(outcome) ==
    /\ fetching
    /\ fetching' = FALSE
    /\ data' = Refreshed(data, fetcher(outcome))
    /\ warnings' = NoToast
    /\ UNCHANGED << map, drawPoint, lat, lng, hazardType, notes, isAuthenticated,
                    accessToken, tokenFetch, reqs, store >>

Next ==
    \/ toggleDrawPoint
    \/ \E pos \in Positions : updateMapCenterCoordinates(pos)
    \/ \E value \in OptionValues : handleHazardOptionSelected(value)
    \/ \E text \in NoteTexts : setNotes(text)
    \/ Reset
    \/ submitHazardForm
    \/ AuthResolved
    \/ \E ok \in BOOLEAN : getUserAccessToken(ok)
    \/ SessionEnd
    \/ \E i \in 1..Len(reqs), answer \in { "created", "error" } : StoreAnswers(i, answer)
    \/ \E i \in 1..Len(reqs), fulfilled \in BOOLEAN : PostSettles(i, fulfilled)
    \/ Revalidate
    \/ \E outcome \in { "ok", "error", "reject" } : FetchCompletes(outcome)

Spec == Init /\ [][Next]_vars

\* Values handed to handleHazardOptionSelected that are no value of
\* hazardOptions; the select of the form never produces them.
UnknownValues == { "LANDSLIDE" }

\* The app with handleHazardOptionSelected called with any string.
NextAnyValue ==
    \/ Next
    \/ \E value \in UnknownValues : handleHazardOptionSelected(value)

SpecAnyValue == Init /\ [][NextAnyValue]_vars

\* ------------------------------------------------------- the map's events

\* The features of the source: any hazardType the store may hold.
Features ==
    [hazardType : OptionValues \cup UnknownValues, lng : Longitudes(MaxFeatureLng)]

Abs(x) == IF x < 0 THEN -x ELSE x

\* Variant: the loop runs only beyond a full turn.
OutOfRangeTurn(click, coordinate) == Abs(click - coordinate) > 360

\* The condition of the while loop of the click handler.
OutOfRange(click, coordinate) == Abs(click - coordinate) > 180

\* The body of the while loop.
Adjusted(click, coordinate) ==
    coordinate + (IF click > coordinate THEN 360 ELSE -360)

\* The map is zoomed, the pointer over no feature.
ZoomTo(z) ==
    /\ map.cursor = ""
    /\ z # map.zoom
    /\ map' = MapAt(z)
    /\ UNCHANGED << appState, warnings >>

\* map.on('mouseenter', 'point'): the pointer enters the symbol of feature f.
mouseenter(f) ==
    /\ map.cursor = ""
    /\ SymbolsDrawn(map.zoom)
    /\ map' = [map EXCEPT !.cursor = "pointer", !.feature = f,
                          !.icon = IconImage(f.hazardType)]
    /\ UNCHANGED << appState, warnings >>

\* map.on('mouseleave', 'point'); the popup, if any, is dismissed.
mouseleave ==
    /\ map.cursor = "pointer"
    /\ map.pc # "loop"
    /\ map' = MapAt(map.zoom)
    /\ UNCHANGED << appState, warnings >>

\* map.on('click', 'point') at longitude l: the coordinates are copied.
click(l) ==
    /\ map.cursor = "pointer"
    /\ map.pc = "idle"
    /\ map' = [map EXCEPT !.pc = "loop", !.click = l,
                          !.coordinates = map.feature.lng]
    /\ UNCHANGED << appState, warnings >>

\* One turn of the while loop.
LoopBody ==
    /\ map.pc = "loop"
    /\ OutOfRange(map.click, map.coordinates)
    /\ map' = [map EXCEPT !.coordinates = Adjusted(map.click, map.coordinates)]
    /\ UNCHANGED << appState, warnings >>

\* The loop is left and the popup is added at the coordinates.
Popup ==
    /\ map.pc = "loop"
    /\ ~OutOfRange(map.click, map.coordinates)
    /\ map' = [map EXCEPT !.pc = "shown"]
    /\ UNCHANGED << appState, warnings >>

NextMap ==
    \/ \E z \in 0..MaxZoom : ZoomTo(z)
    \/ \E f \in Features : mouseenter(f)
    \/ mouseleave
    \/ \E l \in Longitudes(MaxClickLng) : click(l)
    \/ LoopBody
    \/ Popup

\* The click handler runs to its end once started.
SpecMap == Init /\ [][NextMap]_vars /\ WF_vars(LoopBody) /\ WF_vars(Popup)

\* ---------------------------------------------------------------- claims

\* The number of entries of the feature list fs that are the hazard h.
Count(fs, h) == Cardinality({ k \in 1..Len(fs) : fs[k] = h })

\* The hazard of create request i is in the rendered collection.
Rendered(d, i) == Count(RenderedFeatures(d), Hazard(i)) > 0

\* C1: while isAuthenticated is false no step turns drawPoint on, and
\* toggleDrawPoint then leaves the whole state as it is and calls toast.error
\* exactly once, with the login warning.
C1_UnauthenticatedEnterRejected ==
    [][ /\ ~isAuthenticated => (drawPoint' => drawPoint)
        /\ (~isAuthenticated /\ toggleDrawPoint) =>
              /\ UNCHANGED appState
              /\ warnings' = << WarnEnter >> ]_vars

C1_Witness ==
    /\ ~isAuthenticated
    /\ ~drawPoint
    /\ warnings = << WarnEnter >>

\* C2: while accessToken is null, also when isAuthenticated is true and the
\* token fetch is pending or has failed, no step issues a POST, and
\* submitHazardForm leaves draw mode, the form, the cache and everything else
\* as they are and calls toast.error exactly once, with the login warning.
C2_SubmitWithoutTokenRejected ==
    [][ /\ accessToken = Null => reqs' = reqs
        /\ (accessToken = Null /\ submitHazardForm) =>
              /\ UNCHANGED appState
              /\ warnings' = << WarnSubmit >> ]_vars

C2_Witness ==
    /\ isAuthenticated
    /\ tokenFetch \in { "pending", "failed" }
    /\ accessToken = Null
    /\ drawPoint
    /\ reqs = << >>
    /\ warnings = << WarnSubmit >>

\* C3: a submit with a token adds exactly one POST, whose body is the
\* hazardType and notes of the form and the lat and lng of the view at that
\* moment and whose bearer is the token; no other step adds a POST, and a POST
\* on its way to the store keeps its body whatever happens to the view and
\* the form afterwards.
C3_OnePostWithTheFormAtSubmit ==
    [][ /\ (accessToken # Null /\ submitHazardForm) =>
              /\ Len(reqs') = Len(reqs) + 1
              /\ reqs'[Len(reqs')].phase = "sent"
              /\ reqs'[Len(reqs')].post =
                    [body |-> [lat |-> lat, lng |-> lng,
                               hazardType |-> hazardType, notes |-> notes],
                     token |-> accessToken]
        /\ Len(reqs') # Len(reqs) =>
              /\ Len(reqs') = Len(reqs) + 1
              /\ drawPoint /\ accessToken # Null
        /\ \A i \in 1..Len(reqs) :
              (reqs[i].phase = "sent" /\ reqs'[i].phase = "sent") =>
                 reqs'[i].post = reqs[i].post ]_vars

C3_Witness ==
    \E i \in 1..Len(reqs) :
        /\ reqs[i].phase = "sent"
        /\ reqs[i].post.body.hazardType = "OTHER"
        /\ reqs[i].post.body.notes = "debris on shoulder"
        /\ reqs[i].post.body.lat # lat
        /\ reqs[i].post.body.lng # lng
        /\ hazardType # "OTHER"

\* C4: a submit with a token leaves draw mode in the same step, with the
\* create request it issued still on its way; afterwards drawPoint turns on
\* only by the user entering report mode again, a step that changes nothing
\* else.
C4_BrowsingAtOnceOnSubmit ==
    [][ /\ (accessToken # Null /\ submitHazardForm) =>
              /\ ~drawPoint'
              /\ reqs'[Len(reqs')].phase = "sent"
        /\ (~drawPoint /\ drawPoint') =>
              /\ isAuthenticated
              /\ UNCHANGED << lat, lng, hazardType, notes, isAuthenticated,
                              accessToken, tokenFetch, data, fetching, reqs, store >>
      ]_vars

C4_Witness ==
    /\ MutationPending
    /\ ~drawPoint
    /\ \A i \in 1..Len(reqs) : reqs[i].phase = "sent"

\* C5: the rendered collection never holds a hazard twice, and when a refresh
\* completes with the store's collection the rendered collection holds the
\* hazard of every create request that has succeeded exactly once.
C5_NewHazardOnceAfterRefresh ==
    [][ /\ \A i \in 1..Len(reqs') :
              Count(RenderedFeatures(data'), Hazard(i)) <= 1
        /\ FetchCompletes("ok") =>
              \A i \in 1..Len(reqs') :
                 (reqs'[i].phase = "fulfilled" /\ reqs'[i].answer = "created") =>
                    Count(RenderedFeatures(data'), Hazard(i)) = 1 ]_vars

C5_Witness ==
    /\ ~fetching
    /\ ~MutationPending
    /\ \E i \in 1..Len(reqs) :
          /\ reqs[i].phase = "fulfilled"
          /\ reqs[i].answer = "created"
          /\ Count(RenderedFeatures(data), Hazard(i)) = 1

Failed(r) ==
    \/ r.phase = "rejected"
    \/ r.phase = "fulfilled" /\ r.answer = "error"

C8_FailureShowsErrorNotice ==
    \A i \in 1..Len(reqs) :
        Failed(reqs[i]) => reqs[i].toast = MsgError

\* C9, as claimed: a step that leaves report mode, by Reset or by a submit,
\* leaves the form at its default, FLOODED_ROAD and empty notes.
C9_ExitResetsForm ==
    [][ (drawPoint /\ ~drawPoint') =>
           /\ hazardType' = hazardOptions[1]
           /\ notes' = "" ]_vars

\* C10: for each of the three categories, handleHazardOptionSelected leaves
\* hazardType at the selected category and notes empty, whatever the notes
\* were and also when the category selected is the current one.
C10_SelectClearsNotes ==
    [][ \A value \in OptionValues :
           handleHazardOptionSelected(value) =>
              /\ hazardType' = value
              /\ notes' = "" ]_vars

C10_Witness ==
    /\ drawPoint
    /\ hazardType = "TREE_DOWN"
    /\ notes = ""

\* C11, as claimed: handleHazardOptionSelected with a value that is no value
\* of hazardOptions is a no-op, it leaves hazardType and notes as they are.
C11_UnknownValueIsNoOp ==
    [][ \A value \in UnknownValues :
           handleHazardOptionSelected(value) =>
              /\ hazardType' = hazardType
              /\ notes' = notes ]_vars

\* C12, as claimed: a refresh that fails after a load has succeeded, whether
\* the request is rejected or the server answers with an error, leaves the
\* cached collection as it is.
C12_FailedRefreshKeepsCache ==
    [][ \A outcome \in { "error", "reject" } :
           (data.shape = "response" /\ FetchCompletes(outcome)) =>
              data' = data ]_vars

\* C13, as claimed: while isAuthenticated is false, also after a session
\* that fetched a token has ended, no step issues a POST and
\* submitHazardForm leaves draw mode, the form and the cache as they are.
C13_SubmitWithoutSessionRejected ==
    [][ /\ ~isAuthenticated => reqs' = reqs
        /\ (~isAuthenticated /\ submitHazardForm) => UNCHANGED appState ]_vars

\* C14: the popup of a click at longitude L on a feature at longitude F is
\* added at F plus a whole number of turns of 360, at most 180 away from L,
\* and at F itself when L is at most 180 away from F; the loop of the click
\* handler always comes to its end.
C14_PopupOverCopyPointedTo ==
    /\ [] ( map.pc = "shown" =>
              /\ (map.coordinates - map.feature.lng) % 360 = 0
              /\ Abs(map.click - map.coordinates) <= 180
              /\ Abs(map.click - map.feature.lng) <= 180 =>
                    map.coordinates = map.feature.lng )
    /\ (map.pc = "loop") ~> (map.pc = "shown")

C14_Witness ==
    /\ map.pc = "shown"
    /\ map.click = MaxClickLng
    /\ map.feature.lng = -MaxFeatureLng
    /\ map.coordinates = map.feature.lng + 720

\* C15: the symbol of a feature is drawn with flood-pin when its hazardType
\* is FLOODED_ROAD and with warning-pin when it is TREE_DOWN or anything
\* else, always one of the images added to the map.
C15_IconOfEachType ==
    map.cursor = "pointer" =>
       /\ map.feature.hazardType = "FLOODED_ROAD" => map.icon = "flood-pin"
       /\ map.feature.hazardType = "TREE_DOWN" => map.icon = "warning-pin"
       /\ map.feature.hazardType \notin { "FLOODED_ROAD", "TREE_DOWN" } =>
             map.icon = "warning-pin"
       /\ map.icon \in Images

C15_Witness ==
    /\ map.cursor = "pointer"
    /\ map.feature.hazardType \in UnknownValues
    /\ map.icon = "warning-pin"

\* C16: the heatmap is fully opaque at zoom 7 and fully transparent at zoom
\* MAX_HEATMAP_LEVEL, 9, the two stops of its opacity, and
\* MAX_HEATMAP_LEVEL is its maxzoom, from which on it is not drawn.
C16_HeatmapFadesOutAtMaxLevel ==
    /\ MAX_HEATMAP_LEVEL = 9
    /\ map.zoom = 7 => map.opacity = 100
    /\ map.zoom = MAX_HEATMAP_LEVEL => map.opacity = 0
    /\ heatmapLayer.maxzoom = MAX_HEATMAP_LEVEL
    /\ map.heatmap <=> map.zoom < MAX_HEATMAP_LEVEL

C16_Witness ==
    /\ map.zoom = MAX_HEATMAP_LEVEL
    /\ map.opacity = 0
    /\ ~map.heatmap

\* C17: a token fetch that fails leaves accessToken null and the rest of the
\* app as it was, and report mode is still entered while authenticated; the
\* token is only ever set, once, by the success of a fetch, and a fetch only
\* starts with isAuthenticated true.
C17_FailedTokenFetchNotFatal ==
    [][ /\ getUserAccessToken(FALSE) =>
              /\ accessToken' = Null
              /\ UNCHANGED << drawPoint, lat, lng, hazardType, notes,
                              isAuthenticated, data, fetching, reqs, store >>
        /\ tokenFetch' = "failed" => accessToken' = Null
        /\ (tokenFetch = "failed" /\ isAuthenticated /\ toggleDrawPoint) =>
              drawPoint'
        /\ accessToken' # accessToken =>
              /\ accessToken = Null /\ accessToken' = Token
              /\ tokenFetch = "pending" /\ tokenFetch' = "done"
        /\ (tokenFetch # "pending" /\ tokenFetch' = "pending") =>
              isAuthenticated' ]_vars

C17_Witness ==
    /\ tokenFetch = "failed"
    /\ accessToken = Null
    /\ isAuthenticated
    /\ drawPoint

\* C18, as claimed: when two or more create requests have all succeeded, no
\* request or refresh is in flight any more and the refresh after the latest
\* submission has brought its hazard, the cached collection is the
\* collection of the store and holds every submitted hazard exactly once.
C18_AllSubmittedOnceWhenSettled ==
    ( /\ Len(reqs) >= 2
      /\ \A i \in 1..Len(reqs) :
            reqs[i].phase = "fulfilled" /\ reqs[i].answer = "created"
      /\ ~fetching
      /\ Rendered(data, Len(reqs)) ) =>
       /\ data = HazardsResponse(store)
       /\ \A i \in 1..Len(reqs) : Count(RenderedFeatures(data), Hazard(i)) = 1

\* C19: notes are never non-empty unless hazardType is OTHER, in the form
\* and in the body of every POST on its way to the store.
C19_NotesOnlyWithOther ==
    /\ notes # "" => hazardType = "OTHER"
    /\ \A i \in 1..Len(reqs) :
          (reqs[i].phase = "sent" /\ reqs[i].post.body.notes # "") =>
             reqs[i].post.body.hazardType = "OTHER"

C19_Witness ==
    /\ notes # ""
    /\ hazardType = "OTHER"
    /\ \E i \in 1..Len(reqs) :
          /\ reqs[i].phase = "sent"
          /\ reqs[i].post.body.notes # ""
          /\ reqs[i].post.body.hazardType = "OTHER"

\* C20, as claimed: the update of a submission made over a loaded
\* collection is computed from a defined feature list of that snapshot.
C20_UpdateFromDefinedFeatures ==
    [][ (accessToken # Null /\ data.shape = "response" /\ submitHazardForm) =>
           reqs'[Len(reqs')].closure.shape # "thrown" ]_vars
====
